---- MODULE Spec2Model ----
(***************************************************************************)
(* The streaming chat hook useSSEChat (frontend/src/hooks/useSSEChat.js)   *)
(* as a state machine.  JavaScript runs one task at a time: every action   *)
(* below is one task (a user gesture, a network completion, an inbound     *)
(* event, a timer) together with the microtasks it triggers, i.e. the code *)
(* from one suspension point (await) to the next.                          *)
(*                                                                         *)
(* A text is a sequence of tokens; the token " " is white space and the    *)
(* token "__AI_PAUSED__" is the reserved pause marker.                      *)
(***************************************************************************)
EXTENDS Integers, Sequences, FiniteSets, TLC

\* ---------------------------------------------------------------- bounds
MaxSteps == 7       \* tasks run in one page load (the depth explored)
MaxHistory == 2     \* events in the history of a recovered session
MaxTurns == 3       \* sendMessage calls that are accepted in one page load

\* ------------------------------------------------------------- constants
NULL == 0                       \* JavaScript null (no id, no object)
MountProc == 0                  \* the mount effect's ensureSession call
StoredSid == 1                  \* the session id found in localStorage
Turns == 1..MaxTurns
Procs == {MountProc} \cup Turns
WS == " "
AI_PAUSED == <<"__AI_PAUSED__">>
WELCOME_MESSAGE == [role |-> "system", text |-> <<"Welcome">>]
Texts == {<<WS>>, <<WS, "hi", WS>>}

VARIABLES
    \* React state (useState)
    messages, liveEvents, status, streamingText, aiPaused, isRecovered,
    \* the text of the input box (useState of App)
    input,
    \* refs (useRef)
    userIdRef, sessionIdRef, sessionCreatedRef, sessionRecoveryAttempted,
    abortControllerRef, listenEventSourceRef,
    \* localStorage
    storedUserId, storedSessionId,
    \* the asynchronous calls in flight: where each is suspended, and its locals
    pc, aiPausedClosure, sessionIdLocal, allEvents, accumulatedText, buffer,
    \* the EventSource objects that are open or held by listenEventSourceRef, and
    \* the arguments of the pending reconnect timers
    sources, timers,
    \* the server: how many session ids it has handed out, and the response
    \* body of each turn's POST /run_sse, with how much of it has been read
    created, body,
    \* the dashboard's agent form (start.sh): the Save button, the modal, the
    \* agent being edited, the Tools field, and where a submit is suspended
    agentForm,
    \* observation of the calls made (not program state)
    lastCall, recoveryFetches, listenStarts, negotiation, staleProcs,
    listenExpected, steps

reactState == <<messages, liveEvents, status, streamingText, aiPaused, isRecovered,
                input>>
refs == <<userIdRef, sessionIdRef, sessionCreatedRef, sessionRecoveryAttempted,
          abortControllerRef, listenEventSourceRef>>
storage == <<storedUserId, storedSessionId>>
locals == <<pc, aiPausedClosure, sessionIdLocal, allEvents, accumulatedText,
            buffer>>
inbox == <<sources, timers>>
observed == <<lastCall, recoveryFetches, listenStarts, negotiation, staleProcs,
              listenExpected, steps>>
vars == <<reactState, refs, storage, locals, inbox, created, body, agentForm,
          observed>>

\* ----------------------------------------------------------- pure helpers
RECURSIVE TrimStart(_)
TrimStart(t) ==
    IF t # << >> /\ Head(t) = WS THEN TrimStart(Tail(t)) ELSE t

RECURSIVE TrimEnd(_)
TrimEnd(t) ==
    IF t # << >> /\ t[Len(t)] = WS THEN TrimEnd(SubSeq(t, 1, Len(t) - 1)) ELSE t

\* String.prototype.trim
Trim(t) == TrimEnd(TrimStart(t))

Last(s) == s[Len(s)]

\* ------------------------------------------------- the state as one value
\* Handlers are written as functions from state to state, composed in the
\* order of the statements of the code; Becomes(s) makes s the next state.
State ==
    [messages |-> messages, liveEvents |-> liveEvents, status |-> status,
     streamingText |-> streamingText, aiPaused |-> aiPaused,
     isRecovered |-> isRecovered, input |-> input,
     userIdRef |-> userIdRef, sessionIdRef |-> sessionIdRef,
     sessionCreatedRef |-> sessionCreatedRef,
     sessionRecoveryAttempted |-> sessionRecoveryAttempted,
     abortControllerRef |-> abortControllerRef,
     listenEventSourceRef |-> listenEventSourceRef,
     storedUserId |-> storedUserId, storedSessionId |-> storedSessionId,
     pc |-> pc, aiPausedClosure |-> aiPausedClosure,
     sessionIdLocal |-> sessionIdLocal, allEvents |-> allEvents,
     accumulatedText |-> accumulatedText, buffer |-> buffer,
     sources |-> sources, timers |-> timers, created |-> created, body |-> body,
     agentForm |-> agentForm,
     lastCall |-> lastCall, recoveryFetches |-> recoveryFetches,
     listenStarts |-> listenStarts,
     negotiation |-> negotiation, staleProcs |-> staleProcs,
     listenExpected |-> listenExpected]

Assign(s) ==
    /\ messages' = s.messages
    /\ liveEvents' = s.liveEvents
    /\ status' = s.status
    /\ streamingText' = s.streamingText
    /\ aiPaused' = s.aiPaused
    /\ isRecovered' = s.isRecovered
    /\ input' = s.input
    /\ userIdRef' = s.userIdRef
    /\ sessionIdRef' = s.sessionIdRef
    /\ sessionCreatedRef' = s.sessionCreatedRef
    /\ sessionRecoveryAttempted' = s.sessionRecoveryAttempted
    /\ abortControllerRef' = s.abortControllerRef
    /\ listenEventSourceRef' = s.listenEventSourceRef
    /\ storedUserId' = s.storedUserId
    /\ storedSessionId' = s.storedSessionId
    /\ pc' = s.pc
    /\ aiPausedClosure' = s.aiPausedClosure
    /\ sessionIdLocal' = s.sessionIdLocal
    /\ allEvents' = s.allEvents
    /\ accumulatedText' = s.accumulatedText
    /\ buffer' = s.buffer
    /\ body' = s.body
    /\ agentForm' = s.agentForm
    /\ sources' = s.sources
    /\ timers' = s.timers
    /\ created' = s.created
    /\ lastCall' = s.lastCall
    /\ recoveryFetches' = s.recoveryFetches
    /\ listenStarts' = s.listenStarts
    /\ negotiation' = s.negotiation
    /\ staleProcs' = s.staleProcs
    /\ listenExpected' = s.listenExpected
    /\ steps' = IF [s EXCEPT !.lastCall = lastCall] = State THEN steps ELSE steps + 1

Becomes(s) == steps < MaxSteps /\ Assign(s)

\* lastCall describes the task that made the last step: the operation, the
\* call it belongs to, its input (the text sent, the kind of response that
\* arrived, the payload of an inbound event), and what ensureSession did in it.
NoData == [kind |-> "none"]

\* the agent form when the dashboard has loaded: the modal hidden, the Save
\* button enabled with its label, no submit running, no agent on the server
FormAtLoad ==
    [disabled |-> FALSE, label |-> "Save Agent", visible |-> FALSE,
     editingAgent |-> NULL, tools |-> "array", pc |-> "idle", agents |-> 0]

\* a response body: the characters of the stream, and how many have been read
NoBody == [stream |-> << >>, sent |-> 0]

Call(op, p) ==
    [op |-> op, proc |-> p, text |-> << >>, response |-> "", data |-> NoData,
     ensure |-> "", returned |-> NULL, rejected |-> FALSE]

Other == Call("other", NULL)

\* the state after construction, for a page given its user id and the stored one
InitWith(userId, storedUser) ==
    /\ messages = <<WELCOME_MESSAGE>>
    /\ liveEvents = << >>
    /\ status = "idle"
    /\ streamingText = << >>
    /\ aiPaused = FALSE
    /\ isRecovered = FALSE
    /\ input = << >>
    /\ storedUserId = storedUser
    /\ userIdRef = userId
    /\ storedSessionId \in {NULL, StoredSid}
    /\ sessionIdRef = storedSessionId
    /\ sessionCreatedRef = FALSE
    /\ sessionRecoveryAttempted = FALSE
    /\ abortControllerRef = NULL
    /\ listenEventSourceRef = NULL
    /\ pc = [p \in Procs |-> "none"]
    /\ aiPausedClosure = [p \in Turns |-> FALSE]
    /\ sessionIdLocal = [p \in Turns |-> NULL]
    /\ allEvents = [p \in Turns |-> << >>]
    /\ accumulatedText = [p \in Turns |-> << >>]
    /\ buffer = [p \in Turns |-> << >>]
    /\ body = [p \in Turns |-> NoBody]
    /\ agentForm = FormAtLoad
    /\ sources = << >>
    /\ timers = {}
    /\ created = 0
    /\ lastCall = Other
    /\ recoveryFetches = 0
    /\ listenStarts = 0
    /\ negotiation = {}
    /\ staleProcs = {}
    /\ listenExpected = TRUE
    /\ steps = 0

\* the page of a returning anonymous visitor: the stored user id is the id
Init == InitWith("user_1", "user_1")

\* ----------------------------------------------------------- the identity
\* A user id is [prefix, body], body a sequence of base-36 digits; an email is
\* a sequence of character codes (<< >> when there is none in the URL).
NoId == [prefix |-> "null", body |-> << >>]
NoEmail == << >>

\* hash = ((hash << 5) - hash) + char; hash = hash & hash, on a 32-bit integer
\* kept as two 16-bit halves [hi, lo] (two's complement)
HashStep(hash, char) ==
    LET lo == hash.lo * 31 + char
    IN  [hi |-> (hash.hi * 31 + lo \div 65536) % 65536, lo |-> lo % 65536]

RECURSIVE HashOf(_, _)
HashOf(hash, email) ==
    IF email = << >> THEN hash ELSE HashOf(HashStep(hash, Head(email)), Tail(email))

\* Math.abs of the 32-bit value
AbsInt32(hash) ==
    IF hash.hi < 32768 THEN hash.hi * 65536 + hash.lo
    ELSE (65535 - hash.hi) * 65536 + (65536 - hash.lo)

RECURSIVE ToBase36(_)
\* Number.prototype.toString(36), as digits
ToBase36(n) == IF n < 36 THEN <<n>> ELSE Append(ToBase36(n \div 36), n % 36)

hashEmail(email) ==
    [prefix |-> "user", body |-> ToBase36(AbsInt32(HashOf([hi |-> 0, lo |-> 0], email)))]

\* randomId('user'), random being the digits Math.random() gave
randomId(random) == [prefix |-> "user", body |-> random]

\* What a call of getPersistentUserId gives: the id it returns and the stored
\* id it leaves, or threw when a localStorage access throws.  access says how
\* localStorage behaves: "ok", "writeFails" (setItem throws) or "denied" (every
\* access throws).
Returned(id, stored) == [returned |-> id, stored |-> stored, threw |-> FALSE]
Threw(stored) == [returned |-> NoId, stored |-> stored, threw |-> TRUE]

\* mutant of getPersistentUserId: a stored id wins over the email
getStoredUserIdFirst(customerEmail, stored, random, access) ==
    IF access = "denied" THEN Threw(stored)
    ELSE IF stored # NoId THEN Returned(stored, stored)
    ELSE IF access = "writeFails" THEN Threw(stored)
    ELSE IF customerEmail # NoEmail
    THEN Returned(hashEmail(customerEmail), hashEmail(customerEmail))
    ELSE Returned(randomId(random), randomId(random))

getPersistentUserId(customerEmail, stored, random, access) ==
    IF customerEmail # NoEmail
    THEN IF access = "ok"
         THEN Returned(hashEmail(customerEmail), hashEmail(customerEmail))
         ELSE Threw(stored)
    ELSE IF access = "denied" THEN Threw(stored)
    ELSE IF stored # NoId THEN Returned(stored, stored)
    ELSE IF access = "ok"
    THEN Returned(randomId(random), randomId(random))
    ELSE Threw(stored)

\* ------------------------------------------------ history reconstruction
\* A server event: [author, hasParts, parts, timestamp], parts a sequence of
\* texts.
IsTextPart(t) == Trim(t) # << >>

RECURSIVE JoinTrimmed(_)
\* parts.filter(p => p.text && p.text.trim()).map(p => p.text.trim()).join(' ')
JoinTrimmed(parts) ==
    IF parts = << >> THEN << >>
    ELSE LET rest == JoinTrimmed(Tail(parts))
         IN  IF ~IsTextPart(Head(parts)) THEN rest
             ELSE IF rest = << >> THEN Trim(Head(parts))
             ELSE Trim(Head(parts)) \o <<WS>> \o rest

\* mutant of RoleOf: an author that is not known is shown as system
RoleOfUnknownIsSystem(author) ==
    IF author = "user" THEN "user"
    ELSE IF author = "human_agent" THEN "agent"
    ELSE "system"

RoleOf(author) ==
    IF author = "user" THEN "user"
    ELSE IF author = "human_agent" THEN "agent"
    ELSE IF author = "system" THEN "system"
    ELSE "agent"

RECURSIVE parseEventsToMessages(_)
parseEventsToMessages(events) ==
    IF events = << >> THEN << >>
    ELSE LET event == Head(events)
             rest == parseEventsToMessages(Tail(events))
             textParts == JoinTrimmed(event.parts)
         IN  IF ~event.hasParts THEN rest
             ELSE IF textParts = << >> \/ textParts = AI_PAUSED THEN rest
             ELSE <<[role |-> RoleOf(event.author), text |-> textParts,
                     author |-> event.author,
                     timestamp |-> event.timestamp]>> \o rest

\* ------------------------------------------------------ inbound listener
\* mutant of ClosePrevious: the previous subscription is left open
KeepPrevious(s) == s

\* if (listenEventSourceRef.current) listenEventSourceRef.current.close()
ClosePrevious(s) ==
    IF s.listenEventSourceRef # NULL
    THEN [s EXCEPT !.sources[s.listenEventSourceRef].open = FALSE]
    ELSE s

\* Objects that are closed and no longer referenced are dropped from `sources`
\* (they can do nothing more); the ref is renumbered accordingly.
Collect(s) ==
    LET keep == {e \in 1..Len(s.sources) :
                    s.sources[e].open \/ e = s.listenEventSourceRef}
        Index(e) == Cardinality({k \in keep : k <= e})
        Kept(e) == [x \in 1..Cardinality(keep) |->
                        CHOOSE k \in keep : Index(k) = x][e]
    IN  [s EXCEPT !.sources = [x \in 1..Cardinality(keep) |-> s.sources[Kept(x)]],
                  !.listenEventSourceRef = IF @ = NULL THEN NULL ELSE Index(@)]

startListening(s, sessionId, userId) ==
    LET c == ClosePrevious(s)
        eventSource == [sid |-> sessionId, uid |-> userId, open |-> TRUE]
    IN  Collect([c EXCEPT !.sources = Append(c.sources, eventSource),
                          !.listenEventSourceRef = Len(c.sources) + 1,
                          !.listenStarts = @ + 1])

\* mutant of OnMessageHandler: a status event always pauses the AI
OnStatusAlwaysPauses(s, data) ==
    IF data.kind = "malformed" THEN s
    ELSE LET a == IF data.type = "new_message"
                  THEN [s EXCEPT !.messages = Append(@,
                          [role |-> "agent", text |-> data.content,
                           author |-> data.author,
                           timestamp |-> data.timestamp])]
                  ELSE s
         IN  IF data.type = "ai_status_changed"
             THEN LET b == [a EXCEPT !.aiPaused = TRUE]
                  IN  IF data.message # << >>
                      THEN [b EXCEPT !.messages = Append(@,
                              [role |-> "system", text |-> data.message])]
                      ELSE b
             ELSE a

\* mutant of OnMessageHandler: a payload of another type is shown as a message
OnMessageShowsNoise(s, data) ==
    IF data.kind = "malformed" THEN s
    ELSE LET a == IF data.type = "new_message"
                  THEN [s EXCEPT !.messages = Append(@,
                          [role |-> "agent", text |-> data.content,
                           author |-> data.author,
                           timestamp |-> data.timestamp])]
                  ELSE s
         IN  IF data.type = "ai_status_changed"
             THEN LET b == [a EXCEPT !.aiPaused = data.ai_paused]
                  IN  IF data.message # << >>
                      THEN [b EXCEPT !.messages = Append(@,
                              [role |-> "system", text |-> data.message])]
                      ELSE b
             ELSE [a EXCEPT !.messages = Append(@,
                      [role |-> "system", text |-> <<data.type>>])]

\* mutant of OnMessageHandler: a new message is put first in the list
OnMessagePrepends(s, data) ==
    IF data.kind = "malformed" THEN s
    ELSE LET a == IF data.type = "new_message"
                  THEN [s EXCEPT !.messages =
                          <<[role |-> "agent", text |-> data.content,
                             author |-> data.author,
                             timestamp |-> data.timestamp]>> \o @]
                  ELSE s
         IN  IF data.type = "ai_status_changed"
             THEN LET b == [a EXCEPT !.aiPaused = data.ai_paused]
                  IN  IF data.message # << >>
                      THEN [b EXCEPT !.messages = Append(@,
                              [role |-> "system", text |-> data.message])]
                      ELSE b
             ELSE a

\* eventSource.onmessage; a payload that is not JSON has kind "malformed"
OnMessageHandler(s, data) ==
    IF data.kind = "malformed" THEN s
    ELSE LET a == IF data.type = "new_message"
                  THEN [s EXCEPT !.messages = Append(@,
                          [role |-> "agent", text |-> data.content,
                           author |-> data.author,
                           timestamp |-> data.timestamp])]
                  ELSE s
         IN  IF data.type = "ai_status_changed"
             THEN LET b == [a EXCEPT !.aiPaused = data.ai_paused]
                  IN  IF data.message # << >>
                      THEN [b EXCEPT !.messages = Append(@,
                              [role |-> "system", text |-> data.message])]
                      ELSE b
             ELSE a

\* mutant of OnErrorHandler: the subscription is closed and not reopened
OnErrorGivesUp(s, e) == Collect([s EXCEPT !.sources[e].open = FALSE])

\* eventSource.onerror: close, and schedule startListening(sessionId, userId)
OnErrorHandler(s, e) ==
    Collect([s EXCEPT !.sources[e].open = FALSE,
                      !.timers = @ \cup {[sid |-> s.sources[e].sid,
                                          uid |-> s.sources[e].uid]}])

\* a timer set by onerror fires: startListening(sessionId, userId)
ReconnectTimer(s, t) ==
    startListening([s EXCEPT !.timers = @ \ {t}], t.sid, t.uid)

\* --------------------------------------------------------- the turn's end
\* mutant of Finally: the status is left as it is
FinallyKeepsStatus(s, p) ==
    [s EXCEPT !.liveEvents = << >>,
              !.streamingText = << >>,
              !.pc[p] = "done",
              !.allEvents[p] = << >>,
              !.accumulatedText[p] = << >>,
              !.buffer[p] = << >>,
              !.staleProcs = @ \ {p}]

\* finally { ... } of sendMessage: aiPaused is the value the callback closed over
Finally(s, p) ==
    [s EXCEPT !.status = IF s.aiPausedClosure[p] THEN "human_mode" ELSE "idle",
              !.liveEvents = << >>,
              !.streamingText = << >>,
              !.pc[p] = "done",
              !.allEvents[p] = << >>,
              !.accumulatedText[p] = << >>,
              !.buffer[p] = << >>,
              !.staleProcs = @ \ {p}]

ErrorMessage == [role |-> "agent", text |-> <<"Error">>]

\* mutant of CatchError: the error is swallowed
CatchErrorSilent(s, p) == Finally(s, p)

\* catch (error) with error.name !== 'AbortError', then finally
CatchError(s, p) ==
    Finally([s EXCEPT !.messages = Append(@, ErrorMessage)], p)

\* mutant of CatchAbort: an abort is reported like any other error
CatchAbortReports(s, p) == Finally([s EXCEPT !.messages = Append(@, ErrorMessage)], p)

\* catch (error) with error.name === 'AbortError', then finally
CatchAbort(s, p) == Finally(s, p)

\* ----------------------------------------------------- session negotiation
\* sendMessage after `await ensureSession()` has resolved: issue POST /run_sse
IssueRun(s, p, sessionId) ==
    [s EXCEPT !.abortControllerRef = p,
              !.sessionIdLocal[p] = sessionId,
              !.pc[p] = "runPOST"]

\* the mount effect's .catch(...).finally(...)
MountSettled(s) ==
    [s EXCEPT !.status = IF @ = "recovering" THEN "idle" ELSE @,
              !.pc[MountProc] = "done",
              !.staleProcs = @ \ {MountProc}]

\* ensureSession returns sessionId to its caller p
EnsureResolved(s, p, sessionId) ==
    LET a == [s EXCEPT !.lastCall.returned = sessionId]
    IN  IF p = MountProc THEN MountSettled(a) ELSE IssueRun(a, p, sessionId)

\* ensureSession throws to its caller p
EnsureRejected(s, p) ==
    LET a == [s EXCEPT !.lastCall.rejected = TRUE]
    IN  IF p = MountProc THEN MountSettled(a) ELSE CatchError(a, p)

\* "Already have an active session in this page load"
HaveSession(s) == s.sessionCreatedRef /\ s.sessionIdRef # NULL

\* the once-only gate of STEP 1
ShouldRecover(s) == ~s.sessionRecoveryAttempted /\ s.sessionIdRef # NULL

\* STEP 2 up to its await: POST .../sessions
IssueCreate(s, p) ==
    [s EXCEPT !.sessionRecoveryAttempted = TRUE, !.pc[p] = "createPOST"]

\* ensureSession from its call to its first await (or to its return)
ensureSession(s, p) ==
    IF HaveSession(s)
    THEN EnsureResolved([s EXCEPT !.lastCall.ensure = "cached"], p, s.sessionIdRef)
    ELSE IF ShouldRecover(s)
    THEN [s EXCEPT !.sessionRecoveryAttempted = TRUE,
                   !.status = "recovering",
                   !.pc[p] = "recGET",
                   !.recoveryFetches = @ + 1,
                   !.lastCall.ensure = "recover"]
    ELSE IssueCreate([s EXCEPT !.lastCall.ensure = "create"], p)

\* tryRecoverSession after its fetch: whether what it returns is truthy (a
\* session object), and not null (status not ok, a thrown error, a null body)
ReturnsSession(resp) == resp.kind = "session"

\* mutant of ApplyRecovered: the recovered history replaces the whole list
ApplyRecoveredOnly(s, session) ==
    IF session.events = << >> THEN s
    ELSE LET recoveredMessages == parseEventsToMessages(session.events)
             a == IF Len(recoveredMessages) > 0
                  THEN [s EXCEPT !.messages = recoveredMessages,
                                 !.isRecovered = TRUE]
                  ELSE s
         IN  IF session.ai_paused THEN [a EXCEPT !.aiPaused = TRUE] ELSE a

\* tryRecoverSession's state updates for a session it returns
ApplyRecovered(s, session) ==
    IF session.events = << >> THEN s
    ELSE LET recoveredMessages == parseEventsToMessages(session.events)
             a == IF Len(recoveredMessages) > 0
                  THEN [s EXCEPT !.messages = <<WELCOME_MESSAGE>> \o recoveredMessages,
                                 !.isRecovered = TRUE]
                  ELSE s
         IN  IF session.ai_paused THEN [a EXCEPT !.aiPaused = TRUE] ELSE a

\* STEP 1 when tryRecoverSession returned a session
RecoverySucceeds(s, p, session) ==
    LET a == ApplyRecovered(s, session)
        b == startListening([a EXCEPT !.sessionCreatedRef = TRUE],
                            a.sessionIdRef, a.userIdRef)
        c == [b EXCEPT !.status = "idle",
                       !.negotiation = @ \cup {a.sessionIdRef},
                       !.listenExpected = @ \/ p \notin s.staleProcs]
    IN  EnsureResolved(c, p, a.sessionIdRef)

\* mutant of RecoveryFails: the stored session id is not cleared
RecoveryFailsKeepsStored(s, p) ==
    IssueCreate([s EXCEPT !.sessionIdRef = NULL, !.status = "idle"], p)

\* mutant of RecoveryFails: tryRecoverSession lets the error through
RecoveryFailsThrows(s, p) ==
    IF s.lastCall.response = "networkError"
    THEN EnsureRejected(s, p)
    ELSE IssueCreate([s EXCEPT !.sessionIdRef = NULL,
                               !.storedSessionId = NULL,
                               !.status = "idle"], p)

\* STEP 1 when tryRecoverSession returned null, on to STEP 2
RecoveryFails(s, p) ==
    IssueCreate([s EXCEPT !.sessionIdRef = NULL,
                          !.storedSessionId = NULL,
                          !.status = "idle"], p)

\* ensureSession resumed by the recovery GET's response
RecoveryResponse(s, p, resp) ==
    IF ReturnsSession(resp)
    THEN RecoverySucceeds(s, p, resp.session)
    ELSE RecoveryFails(s, p)

\* the id the server gives the next session it creates
NewSessionId(s) == StoredSid + s.created + 1

\* mutant of SessionCreated: startListening is not called
SessionCreatedNoListen(s, p, id) ==
    LET a == [s EXCEPT !.created = @ + 1,
                       !.sessionIdRef = id,
                       !.sessionCreatedRef = TRUE,
                       !.storedSessionId = id,
                       !.negotiation = @ \cup {id}]
    IN  EnsureResolved(a, p, id)

\* STEP 2 after a response that is ok
SessionCreated(s, p, id) ==
    LET a == [s EXCEPT !.created = @ + 1,
                       !.sessionIdRef = id,
                       !.sessionCreatedRef = TRUE,
                       !.storedSessionId = id]
        b == startListening(a, id, a.userIdRef)
        c == [b EXCEPT !.negotiation = @ \cup {id},
                       !.listenExpected = @ \/ p \notin s.staleProcs]
    IN  EnsureResolved(c, p, id)

\* ensureSession resumed by the creation POST's response (or its failure)
CreateResponse(s, p, resp) ==
    IF resp.kind # "session"
    THEN EnsureRejected(s, p)
    ELSE SessionCreated(s, p, NewSessionId(s))

\* ------------------------------------------------------ stream reduction
\* A raw event: [parts, partial]; a part: [functionCall, functionResponse, text,
\* response] (text << >> when the part carries none; response is the payload
\* of a functionResponse: [products, product], products being [kind, items]
\* with kind "array", "other" or "absent", product a sequence of at most one
\* entry).  An entry is [name, price]; "" and 0 are the falsy values that a
\* missing, empty or zero field has in the filter.
NoResponse == [products |-> [kind |-> "absent", items |-> << >>], product |-> << >>]

EventType ==
    [FUNCTION_CALL |-> "function_call", FUNCTION_RESPONSE |-> "function_response",
     TEXT |-> "text", TEXT_PARTIAL |-> "text_partial", THINKING |-> "thinking"]

RECURSIVE ParseParts(_, _)
\* the for loop of parseEvent: the first part that decides
ParseParts(parts, partial) ==
    IF parts = << >>
    THEN [type |-> EventType.THINKING, text |-> << >>, response |-> NoResponse]
    ELSE LET part == Head(parts)
         IN  IF part.functionCall
             THEN [type |-> EventType.FUNCTION_CALL, text |-> << >>,
                   response |-> NoResponse]
             ELSE IF part.functionResponse
             THEN [type |-> EventType.FUNCTION_RESPONSE, text |-> << >>,
                   response |-> part.response]
             ELSE IF Trim(part.text) # << >>
             THEN [type |-> IF partial THEN EventType.TEXT_PARTIAL ELSE EventType.TEXT,
                   text |-> Trim(part.text), response |-> NoResponse]
             ELSE ParseParts(Tail(parts), partial)

parseEvent(event) == ParseParts(event.parts, event.partial)

IsTextEvent(e) == e.type \in {EventType.TEXT, EventType.TEXT_PARTIAL}
IsLiveEvent(e) == e.type \in {EventType.FUNCTION_CALL, EventType.FUNCTION_RESPONSE}
IsToolCall(e) == e.type = EventType.FUNCTION_CALL

\* one line of the response: a "data: " record that parses, or anything else
ProcessLine(s, p, line) ==
    IF line.kind # "data" THEN s
    ELSE LET parsed == parseEvent(line.event)
             a == [s EXCEPT !.allEvents[p] = Append(@, parsed)]
             b == IF IsLiveEvent(parsed)
                  THEN [a EXCEPT !.liveEvents = Append(@, parsed)]
                  ELSE a
         IN  IF IsTextEvent(parsed)
             THEN [b EXCEPT !.accumulatedText[p] = parsed.text,
                            !.streamingText = parsed.text]
             ELSE b

RECURSIVE ProcessChunk(_, _, _)
\* one value of reader.read(): the for loop over the complete lines in it
ProcessChunk(s, p, lines) ==
    IF lines = << >> THEN s
    ELSE ProcessChunk(ProcessLine(s, p, Head(lines)), p, Tail(lines))

RECURSIVE JoinTexts(_)
JoinTexts(events) ==
    IF events = << >> THEN << >> ELSE Head(events).text \o JoinTexts(Tail(events))

\* mutant of FinalText: the texts of all text events, concatenated
FinalTextJoined(s, p) == JoinTexts(SelectSeq(s.allEvents[p], IsTextEvent))

FinalText(s, p) ==
    LET textEvents == SelectSeq(s.allEvents[p], IsTextEvent)
    IN  IF Len(textEvents) > 0 THEN Last(textEvents).text ELSE s.accumulatedText[p]

RECURSIVE PushProducts(_)
\* the for loop of extractProducts: the products array, then the product
PushProducts(events) ==
    IF events = << >> THEN << >>
    ELSE LET event == Head(events)
             response == event.response
         IN  (IF event.type = EventType.FUNCTION_RESPONSE
              THEN (IF response.products.kind = "array"
                    THEN response.products.items ELSE << >>)
                   \o response.product
              ELSE << >>)
             \o PushProducts(Tail(events))

\* p.name && p.price
NameAndPrice(p) == p.name # "" /\ p.price # 0

\* mutant of extractProducts: nothing is filtered out
extractProductsUnfiltered(events) == PushProducts(events)

extractProducts(events) == SelectSeq(PushProducts(events), NameAndPrice)

\* mutant of IsPauseMarker: only a blank text counts
IsBlank(finalText) == Trim(finalText) = << >>

IsPauseMarker(finalText) == finalText = AI_PAUSED \/ Trim(finalText) = << >>

\* the code after the read loop, then finally
Finalize(s, p) ==
    LET finalText == FinalText(s, p)
    IN  IF IsPauseMarker(finalText)
        THEN Finally([s EXCEPT !.aiPaused = TRUE, !.status = "human_mode"], p)
        ELSE Finally([s EXCEPT !.messages = Append(@,
                        [role |-> "agent", text |-> finalText,
                         products |-> extractProducts(s.allEvents[p]),
                         toolCalls |-> SelectSeq(s.allEvents[p], IsToolCall),
                         events |-> s.allEvents[p]])], p)

\* sendMessage resumed by the response of POST /run_sse
RunResponse(s, p, ok) ==
    IF ok THEN [s EXCEPT !.status = "streaming", !.pc[p] = "reading"]
    ELSE CatchError(s, p)

\* ------------------------------------------------------------ user calls
\* mutant of Accepts: the status is not looked at
AcceptsAnyStatus(s, text) == Trim(text) # << >>

\* the guard of sendMessage: text.trim() and status idle or human_mode
Accepts(s, text) == Trim(text) # << >> /\ s.status \in {"idle", "human_mode"}

\* mutant of sendMessage: the thinking status whether the AI is paused or not
sendMessageAlwaysLoading(s, p, text) ==
    LET a == [s EXCEPT !.messages = Append(@, [role |-> "user", text |-> Trim(text)]),
                       !.status = "loading",
                       !.liveEvents = << >>,
                       !.streamingText = << >>,
                       !.aiPausedClosure[p] = s.aiPaused]
    IN  ensureSession(a, p)

\* sendMessage from an accepted call to its first await
sendMessage(s, p, text) ==
    LET a == [s EXCEPT !.messages = Append(@, [role |-> "user", text |-> Trim(text)]),
                       !.status = IF s.aiPaused THEN "human_mode" ELSE "loading",
                       !.liveEvents = << >>,
                       !.streamingText = << >>,
                       !.aiPausedClosure[p] = s.aiPaused]
    IN  ensureSession(a, p)

\* abortControllerRef.current.abort(): the fetch or read it is attached to
\* rejects with AbortError, and the turn's catch and finally run
Abort(s) ==
    IF s.abortControllerRef # NULL
       /\ s.pc[s.abortControllerRef] \in {"runPOST", "reading"}
    THEN CatchAbort(s, s.abortControllerRef)
    ELSE s

\* the request abort() would end: the /run_sse fetch or read of the turn whose
\* controller abortControllerRef holds
Abortable(s) ==
    s.abortControllerRef # NULL /\ s.pc[s.abortControllerRef] \in {"runPOST", "reading"}

cancelStream(s) ==
    Abort([s EXCEPT !.lastCall = [Call("cancelStream", s.abortControllerRef) EXCEPT
                !.response = IF Abortable(s) THEN "aborted" ELSE ""]])

InFlight(s) == {p \in Procs : s.pc[p] \notin {"none", "done"}}

\* mutant of reset: sessionIdRef.current is not cleared
resetKeepsSessionId(s) ==
    LET a == [Collect([ClosePrevious(s) EXCEPT !.listenEventSourceRef = NULL]) EXCEPT
                !.messages = <<WELCOME_MESSAGE>>,
                !.liveEvents = << >>,
                !.streamingText = << >>,
                !.status = "idle",
                !.aiPaused = FALSE,
                !.isRecovered = FALSE,
                !.sessionCreatedRef = FALSE,
                !.sessionRecoveryAttempted = FALSE,
                !.storedSessionId = NULL,
                !.lastCall = Call("reset", NULL),
                !.negotiation = {},
                !.listenExpected = FALSE]
        b == Abort(a)
    IN  [b EXCEPT !.staleProcs = InFlight(b)]

reset(s) ==
    LET a == [Collect([ClosePrevious(s) EXCEPT !.listenEventSourceRef = NULL]) EXCEPT
                !.messages = <<WELCOME_MESSAGE>>,
                !.liveEvents = << >>,
                !.streamingText = << >>,
                !.status = "idle",
                !.aiPaused = FALSE,
                !.isRecovered = FALSE,
                !.sessionIdRef = NULL,
                !.sessionCreatedRef = FALSE,
                !.sessionRecoveryAttempted = FALSE,
                !.storedSessionId = NULL,
                !.lastCall = Call("reset", NULL),
                !.negotiation = {},
                !.listenExpected = FALSE]
        b == Abort(a)
    IN  [b EXCEPT !.staleProcs = InFlight(b)]

\* ---------------------------------------------------------------- inputs
RecoveryResponses ==
    {[kind |-> k] : k \in {"networkError", "notOk", "badJson", "null"}}
    \cup {[kind |-> "session", session |-> [events |-> ev, ai_paused |-> b]] :
            ev \in {<< >>,
                    <<[author |-> "user", hasParts |-> TRUE, parts |-> <<<<"hi">>>>,
                       timestamp |-> 1]>>,
                    <<[author |-> "bot", hasParts |-> TRUE, parts |-> <<AI_PAUSED>>,
                       timestamp |-> 1]>>},
            b \in BOOLEAN}

CreateResponses == {[kind |-> k] : k \in {"networkError", "notOk", "badJson", "session"}}

TextPart(t) ==
    [functionCall |-> FALSE, functionResponse |-> FALSE, text |-> t,
     response |-> NoResponse]

CallPart ==
    [functionCall |-> TRUE, functionResponse |-> FALSE, text |-> << >>,
     response |-> NoResponse]

ResponsePart(response) ==
    [functionCall |-> FALSE, functionResponse |-> TRUE, text |-> << >>,
     response |-> response]

DataLine(partial, part) ==
    [kind |-> "data", event |-> [partial |-> partial, parts |-> <<part>>]]

FinalLine == DataLine(FALSE, TextPart(<<"ok">>))
PartialLine == DataLine(TRUE, TextPart(<<"o">>))
CallLine == DataLine(FALSE, CallPart)

Lines ==
    {[kind |-> "other"], FinalLine, PartialLine,
     DataLine(FALSE, TextPart(AI_PAUSED)), CallLine}

\* what one reader.read() delivers: one line, or several lines at once
Chunks ==
    {<<line>> : line \in Lines}
    \cup {<<CallLine, PartialLine, PartialLine, PartialLine>>,
          <<CallLine, PartialLine, PartialLine, PartialLine, FinalLine>>}

Payloads ==
    {[kind |-> "malformed"],
     [kind |-> "json", type |-> "keepalive"],
     [kind |-> "json", type |-> "new_message", content |-> <<"hello">>,
      author |-> "human_agent", timestamp |-> 1]}
    \cup {[kind |-> "json", type |-> "ai_status_changed", ai_paused |-> b, message |-> m] :
            b \in BOOLEAN, m \in {<< >>, <<"status">>}}

\* --------------------------------------------------------------- actions
Mounted == pc[MountProc] # "none"

FreeTurn(p) == p \in Turns /\ pc[p] = "none" /\ \A q \in Turns : q < p => pc[q] # "none"

\* useEffect(..., [ensureSession]) after the first render
Mount ==
    /\ ~Mounted
    /\ IF storedSessionId # NULL /\ ~sessionRecoveryAttempted
       THEN Becomes(ensureSession([State EXCEPT !.lastCall =
                Call("mount", MountProc)], MountProc))
       ELSE Becomes([State EXCEPT !.pc[MountProc] = "done", !.lastCall = Other])

\* a call sendMessage(text) when p is the next turn: the whole callback
SendMessageCall(s, p, text) ==
    LET a == [s EXCEPT !.lastCall = [Call("sendMessage", p) EXCEPT !.text = text]]
    IN  IF Accepts(s, text) THEN sendMessage(a, p, text) ELSE a

SendMessage ==
    /\ Mounted
    /\ \E text \in Texts, p \in Turns :
        /\ FreeTurn(p)
        /\ Becomes(SendMessageCall(State, p, text))

RecoveryResponds ==
    \E p \in Procs, resp \in RecoveryResponses :
        /\ pc[p] = "recGET"
        /\ Becomes(RecoveryResponse([State EXCEPT !.lastCall =
                [Call("recoveryResponse", p) EXCEPT
                    !.response = resp.kind,
                    !.data = IF ReturnsSession(resp)
                             THEN [kind |-> "session",
                                   ai_paused |-> resp.session.ai_paused,
                                   events |-> resp.session.events]
                             ELSE NoData]], p, resp))

CreateResponds ==
    \E p \in Procs, resp \in CreateResponses :
        /\ pc[p] = "createPOST"
        /\ Becomes(CreateResponse([State EXCEPT !.lastCall =
                [Call("createResponse", p) EXCEPT !.response = resp.kind]], p, resp))

RunResponds ==
    \E p \in Turns, ok \in BOOLEAN :
        /\ pc[p] = "runPOST"
        /\ Becomes(RunResponse([State EXCEPT !.lastCall =
                [Call("runResponse", p) EXCEPT !.response =
                    IF ok THEN "ok" ELSE "failed"]], p, ok))

StreamRead ==
    \E p \in Turns, chunk \in Chunks :
        /\ pc[p] = "reading"
        /\ Becomes(ProcessChunk([State EXCEPT !.lastCall = Call("read", p)], p, chunk))

StreamEnds ==
    \E p \in Turns :
        /\ pc[p] = "reading"
        /\ Becomes(Finalize([State EXCEPT !.lastCall =
                [Call("streamEnd", p) EXCEPT !.text = FinalText(State, p)]], p))

StreamFails ==
    \E p \in Turns :
        /\ pc[p] = "reading"
        /\ Becomes(CatchError([State EXCEPT !.lastCall = Call("streamError", p)], p))

CancelStream ==
    /\ Mounted
    /\ Becomes(cancelStream(State))

Reset ==
    /\ Mounted
    /\ Becomes(reset(State))

Inbound ==
    \E e \in 1..Len(sources), data \in Payloads :
        /\ sources[e].open
        /\ Becomes(OnMessageHandler([State EXCEPT !.lastCall =
                [Call("inbound", NULL) EXCEPT !.data = data]], data))

SourceError ==
    \E e \in 1..Len(sources) :
        /\ sources[e].open
        /\ Becomes(OnErrorHandler([State EXCEPT !.lastCall =
                [Call("sourceError", NULL) EXCEPT !.data =
                    [kind |-> "source", sid |-> sources[e].sid,
                     uid |-> sources[e].uid]]], e))

TimerFires ==
    \E t \in timers :
        /\ Becomes(ReconnectTimer([State EXCEPT !.lastCall =
                [Call("timer", NULL) EXCEPT !.data =
                    [kind |-> "source", sid |-> t.sid, uid |-> t.uid]]], t))

Next ==
    \/ Mount
    \/ SendMessage
    \/ RecoveryResponds
    \/ CreateResponds
    \/ RunResponds
    \/ StreamRead
    \/ StreamEnds
    \/ StreamFails
    \/ CancelStream
    \/ Reset
    \/ Inbound
    \/ SourceError
    \/ TimerFires

Spec == Init /\ [][Next]_vars

\* Identity resolution over the page loads of one browser.  A page load calls
\* getPersistentUserId with the email of the launch URL (or none) and whatever
\* localStorage holds; between loads the user may clear the site's storage.
LaunchEmails == {NoEmail, <<97, 64, 98>>, <<122, 122, 122, 122, 122, 122, 122, 64, 122, 122>>}
RandomDigits == {<<10, 1, 2, 3, 4, 5>>, <<35, 0, 7, 7, 7, 7>>}
StorageAccess == {"ok", "writeFails", "denied"}
StoredUserIds == {NoId, randomId(<<1, 2, 3, 4, 5, 6>>)}

notIdentity ==
    <<reactState, sessionIdRef, sessionCreatedRef, sessionRecoveryAttempted,
      abortControllerRef, listenEventSourceRef, storedSessionId, locals, inbox,
      created, body, agentForm, recoveryFetches, listenStarts, negotiation,
      staleProcs, listenExpected, steps>>

IdentityInit == \E stored \in StoredUserIds : InitWith(NoId, stored)

\* useRef(getPersistentUserId()) at the first render of a page load
LoadPage ==
    \E email \in LaunchEmails, random \in RandomDigits, access \in StorageAccess :
        LET r == getPersistentUserId(email, storedUserId, random, access)
        IN  /\ userIdRef' = r.returned
            /\ storedUserId' = r.stored
            /\ lastCall' = [Call("load", NULL) EXCEPT
                    !.data = [kind |-> "load", email |-> email, random |-> random,
                              access |-> access, stored |-> storedUserId],
                    !.rejected = r.threw]
            /\ UNCHANGED notIdentity

\* the user clears the site's data (lastCall keeps the last load's input)
ClearStorage ==
    /\ storedUserId' = NoId
    /\ lastCall' = [lastCall EXCEPT !.op = "clearStorage"]
    /\ UNCHANGED <<userIdRef, notIdentity>>

IdentityNext == LoadPage \/ ClearStorage

IdentitySpec == IdentityInit /\ [][IdentityNext]_vars

\* The same program for the progress properties.  What the user, the inbox and
\* the server's stream may do is bounded by LiveSteps tasks; the completion of
\* a pending request, and the end of a response that is being read, are never
\* cut off, and happen eventually: every network request resolves or rejects,
\* every response stream ends.
LiveSteps == MaxSteps - 2

RecoverySettles ==
    \E p \in Procs, resp \in RecoveryResponses :
        /\ pc[p] = "recGET"
        /\ Assign(RecoveryResponse([State EXCEPT !.lastCall =
                [Call("recoveryResponse", p) EXCEPT !.response = resp.kind]], p, resp))

CreateSettles ==
    \E p \in Procs, resp \in CreateResponses :
        /\ pc[p] = "createPOST"
        /\ Assign(CreateResponse([State EXCEPT !.lastCall =
                [Call("createResponse", p) EXCEPT !.response = resp.kind]], p, resp))

RunSettles ==
    \E p \in Turns, ok \in BOOLEAN :
        /\ pc[p] = "runPOST"
        /\ Assign(RunResponse([State EXCEPT !.lastCall =
                [Call("runResponse", p) EXCEPT !.response =
                    IF ok THEN "ok" ELSE "failed"]], p, ok))

StreamSettles ==
    \E p \in Turns :
        /\ pc[p] = "reading"
        /\ \/ Assign(Finalize([State EXCEPT !.lastCall =
                    [Call("streamEnd", p) EXCEPT !.text = FinalText(State, p)]], p))
           \/ Assign(CatchError([State EXCEPT !.lastCall = Call("streamError", p)], p))

Bounded(A) == steps < LiveSteps /\ A

LiveNext ==
    \/ Bounded(Mount)
    \/ Bounded(SendMessage)
    \/ Bounded(StreamRead)
    \/ Bounded(CancelStream)
    \/ Bounded(Reset)
    \/ Bounded(Inbound)
    \/ Bounded(SourceError)
    \/ Bounded(TimerFires)
    \/ RecoverySettles
    \/ CreateSettles
    \/ RunSettles
    \/ StreamSettles

\* a call suspended at `at` (awaiting a request, or the next read of a
\* response) is resumed; the four actions above are the steps that do it
Resumed(at) ==
    \E p \in Procs, to \in {"createPOST", "runPOST", "reading", "done"} \ {at} :
        /\ pc[p] = at
        /\ pc' = [pc EXCEPT ![p] = to]

LiveSpec ==
    /\ Init
    /\ [][LiveNext]_vars
    /\ WF_pc(Resumed("recGET"))
    /\ WF_pc(Resumed("createPOST"))
    /\ WF_pc(Resumed("runPOST"))
    /\ WF_pc(Resumed("reading"))

\* ------------------------------------------- the reduction of a response
\* The stream reduction (parseEvent, the read loop, extractProducts and the
\* finalization) applied to responses of every shape: events of several parts
\* in either order, function responses with a products array, a product, both
\* or neither, and entries without a name or a price.
SofaA == [name |-> "Sofa A", price |-> 499]
ChairB == [name |-> "Chair B", price |-> 120]
NoPrice == [name |-> "Lamp C", price |-> 0]
NoName == [name |-> "", price |-> 75]

ArrayOfOne == [products |-> [kind |-> "array", items |-> <<SofaA>>], product |-> << >>]
ArrayAndProduct ==
    [products |-> [kind |-> "array", items |-> <<NoPrice, SofaA, NoName>>],
     product |-> <<ChairB>>]
NotAnArray == [products |-> [kind |-> "other", items |-> <<SofaA>>], product |-> <<NoPrice>>]

Responses == {ArrayOfOne, ArrayAndProduct, NotAnArray, NoResponse}

ResponseLine(response) == DataLine(FALSE, ResponsePart(response))

OkPart == TextPart(<<"ok">>)

ManyParts(partial, parts) ==
    [kind |-> "data", event |-> [partial |-> partial, parts |-> parts]]

ManyPartLines ==
    {ManyParts(FALSE, parts) :
        parts \in {<< >>, <<OkPart, CallPart>>, <<CallPart, OkPart>>,
                   <<TextPart(<<WS>>), OkPart>>,
                   <<ResponsePart(NoResponse), CallPart>>,
                   <<TextPart(<<WS>>), ResponsePart(NoResponse)>>}}
    \cup {ManyParts(TRUE, <<TextPart(<<WS>>), OkPart>>)}

ReduceChunks ==
    {<<line>> : line \in Lines \cup {ResponseLine(r) : r \in Responses}
                         \cup ManyPartLines}
    \cup {<<ResponseLine(ArrayAndProduct), CallLine>>,
          <<ResponseLine(ArrayOfOne), ResponseLine(ArrayAndProduct)>>,
          <<ResponseLine(NotAnArray), ResponseLine(ArrayOfOne)>>}

\* a page without a stored session
ReduceInit == Init /\ storedSessionId = NULL

\* one value of reader.read(), the lines it carried kept in lastCall
ReadLines ==
    \E p \in Turns, chunk \in ReduceChunks :
        /\ pc[p] = "reading"
        /\ Becomes(ProcessChunk([State EXCEPT !.lastCall =
                [Call("read", p) EXCEPT !.data =
                    [kind |-> "lines", lines |-> chunk]]], p, chunk))

ReduceNext ==
    \/ Mount
    \/ SendMessage
    \/ CreateResponds
    \/ RunResponds
    \/ ReadLines
    \/ StreamEnds

ReduceSpec == ReduceInit /\ [][ReduceNext]_vars

\* ------------------------------------------ the history of a session
\* parseEventsToMessages applied, by the recovery at page load, to histories
\* of every shape: events of each author, without parts, with blank parts,
\* with the pause marker, and with several parts.
ServerEvent(author, parts) ==
    [author |-> author, hasParts |-> TRUE, parts |-> parts, timestamp |-> 1]

ServerEvents ==
    {ServerEvent("user", <<<<WS, "hi", WS>>>>),
     ServerEvent("bot", <<<<"ok">>>>),
     ServerEvent("human_agent", <<<<"hello">>>>),
     ServerEvent("system", <<<<"status">>>>),
     ServerEvent("bot", <<<<WS>>>>),
     ServerEvent("bot", <<<<WS>> \o AI_PAUSED>>),
     ServerEvent("user", <<<<"a", WS>>, <<WS>>, <<"b">>>>),
     [author |-> "bot", hasParts |-> FALSE, parts |-> << >>, timestamp |-> 1]}

Histories ==
    UNION {[1..n -> ServerEvents] : n \in 0..MaxHistory}

\* a page with a stored session
HistoryInit == Init /\ storedSessionId = StoredSid

\* the recovery GET answers with a session
RecoverHistory ==
    \E p \in Procs, events \in Histories, ai_paused \in BOOLEAN :
        /\ pc[p] = "recGET"
        /\ Becomes(RecoveryResponse([State EXCEPT !.lastCall =
                [Call("recoveryResponse", p) EXCEPT
                    !.response = "session",
                    !.data = [kind |-> "session", ai_paused |-> ai_paused,
                              events |-> events]]], p,
                [kind |-> "session",
                 session |-> [events |-> events, ai_paused |-> ai_paused]]))

HistoryNext ==
    \/ Mount
    \/ RecoverHistory

HistorySpec == HistoryInit /\ [][HistoryNext]_vars

\* ------------------------------------------- the chunks of a response
\* The read loop applied to response bodies that arrive cut at any place:
\* inside "data: {...}", before the newline, or between records.
\* The characters of a response, as far as the read loop tells them apart: the
\* newline, the prefix "data: ", and the pieces of a JSON text.
NL == "\n"
DATA == "data: "

RECURSIVE Split(_)
\* buffer.split('\n')
Split(text) ==
    IF \A i \in 1..Len(text) : text[i] # NL THEN <<text>>
    ELSE LET i == CHOOSE j \in 1..Len(text) :
                    text[j] = NL /\ \A k \in 1..(j - 1) : text[k] # NL
         IN  <<SubSeq(text, 1, i - 1)>> \o Split(SubSeq(text, i + 1, Len(text)))

\* JSON.parse(line.slice(6)): the texts "{F}", "{P}" and "{C}" are the events
\* of FinalLine, PartialLine and CallLine; any other text does not parse
JsonEvents ==
    [F |-> FinalLine.event, P |-> PartialLine.event, C |-> CallLine.event]

\* line.startsWith('data: ') and the try block around JSON.parse
ParseLine(line) ==
    IF line # << >> /\ Head(line) = DATA
    THEN LET json == Tail(line)
         IN  IF Len(json) = 3 /\ json[1] = "{" /\ json[3] = "}"
                /\ json[2] \in DOMAIN JsonEvents
             THEN [kind |-> "data", event |-> JsonEvents[json[2]]]
             ELSE [kind |-> "other"]
    ELSE [kind |-> "other"]

RECURSIVE ParseLines(_)
ParseLines(lines) ==
    IF lines = << >> THEN << >>
    ELSE <<ParseLine(Head(lines))>> \o ParseLines(Tail(lines))

\* mutant of ReadValue: what follows the last newline is not kept
ReadValueDropsRest(s, p, value) ==
    LET lines == Split(s.buffer[p] \o value)
        a == ProcessChunk(s, p, ParseLines(SubSeq(lines, 1, Len(lines) - 1)))
    IN  [a EXCEPT !.buffer[p] = << >>]

\* one value of reader.read(): buffer += value; lines = buffer.split('\n');
\* buffer = lines.pop() || ''; then the for loop over lines
ReadValue(s, p, value) ==
    LET lines == Split(s.buffer[p] \o value)
        a == ProcessChunk(s, p, ParseLines(SubSeq(lines, 1, Len(lines) - 1)))
    IN  [a EXCEPT !.buffer[p] = Last(lines)]

Record(json) == <<DATA, "{", json, "}", NL>>

Streams ==
    {Record("F"),
     Record("P") \o Record("F"),
     <<DATA, "{", "F", NL>> \o Record("C"),
     <<":", NL, NL>> \o Record("F"),
     <<"{", "F", "}", NL>> \o Record("P"),
     Record("F") \o <<DATA, "{", "P", "}">>}

\* POST /run_sse answers ok with a body
RunRespondsBody ==
    \E p \in Turns, stream \in Streams :
        /\ pc[p] = "runPOST"
        /\ Becomes([RunResponse([State EXCEPT !.lastCall =
                        [Call("runResponse", p) EXCEPT !.response = "ok"]], p, TRUE)
                    EXCEPT !.body[p] = [stream |-> stream, sent |-> 0]])

\* reader.read() resolves with the next n characters of the body
ReadBody ==
    \E p \in Turns :
        /\ pc[p] = "reading"
        /\ \E n \in 1..(Len(body[p].stream) - body[p].sent) :
            LET value == SubSeq(body[p].stream, body[p].sent + 1, body[p].sent + n)
            IN  Becomes(ReadValue([State EXCEPT
                    !.body[p].sent = @ + n,
                    !.lastCall = [Call("read", p) EXCEPT !.data =
                                    [kind |-> "value", value |-> value]]], p, value))

\* reader.read() resolves with done when the whole body has been read
BodyEnds ==
    /\ \A p \in Turns : pc[p] = "reading" => body[p].sent = Len(body[p].stream)
    /\ StreamEnds

BufferNext ==
    \/ Mount
    \/ SendMessage
    \/ CreateResponds
    \/ RunRespondsBody
    \/ ReadBody
    \/ BodyEnds

BufferSpec == ReduceInit /\ [][BufferNext]_vars

\* ------------------------------------------------------- the input box
\* App's handleSend(text): sendMessage with the trimmed text, then the input
\* box is cleared; p is the turn that starts if sendMessage accepts
handleSend(s, p, text) ==
    LET messageText == IF text # << >> THEN text ELSE s.input
    IN  IF Trim(messageText) # << >>
        THEN [SendMessageCall(s, p, Trim(messageText)) EXCEPT !.input = << >>]
        ELSE s

\* ChatInput's handleSubmit: onSend(value) unless the text is blank or the
\* status is loading or streaming
handleSubmit(s, p) ==
    IF Trim(s.input) # << >> /\ s.status \notin {"loading", "streaming"}
    THEN handleSend(s, p, s.input)
    ELSE s

\* the user types: onChange={setInput}
OnChange ==
    \E text \in Texts \cup {<<"hi">>} :
        /\ input # text
        /\ Becomes([State EXCEPT !.input = text, !.lastCall = Call("onChange", NULL)])

\* the user presses Enter or the send button
Submit ==
    \E p \in Turns :
        /\ FreeTurn(p)
        /\ Becomes([handleSubmit(State, p) EXCEPT !.lastCall.op = "handleSubmit"])

InputNext ==
    \/ Mount
    \/ OnChange
    \/ Submit
    \/ RecoveryResponds
    \/ CreateResponds
    \/ RunResponds
    \/ StreamEnds

InputSpec == Init /\ [][InputNext]_vars

\* ------------------------------------------- the dashboard's agent form
\* The Tools field holds nothing, a text that is not JSON, a JSON value that is
\* not an array, or a JSON array.
ToolsTexts == {"empty", "notJson", "notArray", "array"}

\* openModal(agent): agent is NULL for a new agent
openModal(f, agent) ==
    [f EXCEPT !.editingAgent = agent, !.tools = "array", !.visible = TRUE]

closeModal(f) == [f EXCEPT !.visible = FALSE, !.editingAgent = NULL]

\* finally { btn.disabled = false; btn.textContent = 'Save Agent' }
SubmitFinally(f) ==
    [f EXCEPT !.disabled = FALSE, !.label = "Save Agent", !.pc = "idle"]

\* the submit handler up to its first await
SubmitHandler(f) ==
    LET a == [f EXCEPT !.disabled = TRUE, !.label = "spinner"]
    IN  IF a.tools = "notJson"
        THEN [a EXCEPT !.disabled = FALSE, !.label = "Save Agent"]
        ELSE IF a.tools = "notArray" THEN a
        ELSE [a EXCEPT !.pc = "saving"]

\* the handler resumed by the answer of API.createAgent or API.updateAgent
SaveResponse(f, ok) ==
    IF ok
    THEN [closeModal(f) EXCEPT
            !.agents = IF f.editingAgent = NULL THEN @ + 1 ELSE @,
            !.pc = "loading"]
    ELSE SubmitFinally(f)

FormStep(op, f) ==
    Becomes([State EXCEPT !.agentForm = f, !.lastCall = Call(op, NULL)])

OpenModal ==
    \E agent \in {NULL} \cup 1..agentForm.agents :
        FormStep("openModal", openModal(agentForm, agent))

CloseModal ==
    /\ agentForm.visible
    /\ FormStep("closeModal", closeModal(agentForm))

EditTools ==
    \E text \in ToolsTexts :
        /\ agentForm.visible
        /\ FormStep("editTools", [agentForm EXCEPT !.tools = text])

SubmitForm ==
    /\ agentForm.visible
    /\ ~agentForm.disabled
    /\ FormStep("submit", SubmitHandler(agentForm))

SaveResponds ==
    \E ok \in BOOLEAN :
        /\ agentForm.pc = "saving"
        /\ FormStep("saveResponse", SaveResponse(agentForm, ok))

\* loadAgents catches its own errors: the handler goes on either way
LoadAgentsResponds ==
    /\ agentForm.pc = "loading"
    /\ FormStep("loadAgentsResponse", SubmitFinally(agentForm))

FormNext ==
    \/ OpenModal
    \/ CloseModal
    \/ EditTools
    \/ SubmitForm
    \/ SaveResponds
    \/ LoadAgentsResponds

FormSpec == Init /\ [][FormNext]_vars

\* ---------------------------------------------------------------- claims
InFlightTurns == {p \in Turns : pc[p] \notin {"none", "done"}}
Negotiating == {p \in Procs : pc[p] \in {"recGET", "createPOST"}}
OpenSources == {e \in 1..Len(sources) : sources[e].open}
TurnStarted(p) == p \in Turns /\ pc[p] = "none" /\ pc'[p] # "none"

\* C1: turns never overlap: while an accepted turn has not run its finally
\* block, no second sendMessage call is accepted.
TurnsNeverOverlap == Cardinality(InFlightTurns) <= 1

\* C2: a sendMessage call whose text is blank, or made when status is neither
\* idle nor human_mode, changes nothing: no message, status, AI-paused flag
\* and buffers unchanged, no negotiation and no request started.
RejectedSendChangesNothing ==
    [][(/\ lastCall'.op = "sendMessage"
        /\ \/ Trim(lastCall'.text) = << >>
           \/ status \notin {"idle", "human_mode"})
       => UNCHANGED <<reactState, refs, storage, locals, inbox, created,
                      recoveryFetches, listenStarts>>]_vars

\* C2 witness: a non-blank text was sent while a response was streaming
SendWhileStreaming ==
    /\ lastCall.op = "sendMessage"
    /\ Trim(lastCall.text) # << >>
    /\ status = "streaming"
    /\ Cardinality(InFlightTurns) = 1

\* C3: at most one session-recovery GET is issued in a page load.
RecoveryFetchedAtMostOnce == recoveryFetches <= 1

\* C3 witness: a second ensureSession call (a turn's) was made while the mount
\* effect's call is still awaiting its recovery GET
SecondCallDuringRecovery ==
    /\ pc[MountProc] = "recGET"
    /\ \E p \in Turns : pc[p] = "createPOST"
    /\ recoveryFetches = 1

\* C4: at most one ensureSession call is awaiting a session request (the
\* recovery GET or the creation POST) at any time.
OneNegotiationInFlight == Cardinality(Negotiating) <= 1

\* C5: a recovery fetch answered not-found clears the session id in storage
\* and in memory and issues the creation POST; when a creation succeeds, the
\* id the server returned is what ensureSession returns and what is stored.
NotFoundFallsThroughToCreation ==
    [][/\ (lastCall'.op = "recoveryResponse" /\ lastCall'.response = "notOk")
          => /\ sessionIdRef' = NULL
             /\ storedSessionId' = NULL
             /\ pc'[lastCall'.proc] = "createPOST"
       /\ (lastCall'.op = "createResponse" /\ lastCall'.response = "session")
          => /\ lastCall'.returned = StoredSid + created + 1
             /\ storedSessionId' = StoredSid + created + 1
             /\ sessionIdRef' = StoredSid + created + 1
             /\ ~lastCall'.rejected]_vars

\* C5 witness: the mount effect's call, whose recovery failed, has created a
\* session and stored its id
CreatedAfterFailedRecovery ==
    /\ lastCall.op = "createResponse"
    /\ lastCall.proc = MountProc
    /\ lastCall.response = "session"
    /\ storedSessionId = lastCall.returned
    /\ storedSessionId # StoredSid

\* C6: ensureSession rejects only on a failed creation request; a recovery
\* fetch that fails in any way neither rejects nor adds a message, it goes on
\* to creation.
OnlyCreationFailureRejects ==
    [][/\ lastCall'.rejected
          => lastCall'.op = "createResponse" /\ lastCall'.response # "session"
       /\ (lastCall'.op = "recoveryResponse" /\ lastCall'.response # "session")
          => /\ ~lastCall'.rejected
             /\ messages' = messages
             /\ pc'[lastCall'.proc] = "createPOST"]_vars

\* C6 witness: a recovery fetch failed with a network error and the call went
\* on to creation
RecoveryErrorFellThrough ==
    /\ lastCall.op = "recoveryResponse"
    /\ lastCall.response = "networkError"
    /\ pc[lastCall.proc] = "createPOST"

\* C7: once an ensureSession call has succeeded, and until reset, every later
\* ensureSession call returns that same session id at once: no request, no
\* status change by ensureSession, no restart of the listener.
EnsureSessionIdempotent ==
    [][(lastCall'.op = "sendMessage" /\ TurnStarted(lastCall'.proc)
        /\ negotiation # {})
       => /\ negotiation = {lastCall'.returned}
          /\ pc'[lastCall'.proc] = "runPOST"
          /\ status' # "recovering"
          /\ listenStarts' = listenStarts]_vars

\* C8: a negotiation that succeeds (recovered or created) starts the listener
\* exactly once, bound to the id it returns and the page's userId; one that
\* fails (or is not over yet) starts none.
NegotiationStartsListenerOnce ==
    [][(lastCall'.op \in {"recoveryResponse", "createResponse"})
       => IF lastCall'.response = "session"
          THEN /\ listenStarts' = listenStarts + 1
               /\ listenEventSourceRef' # NULL
               /\ sources'[listenEventSourceRef'] =
                    [sid |-> lastCall'.returned, uid |-> userIdRef, open |-> TRUE]
          ELSE listenStarts' = listenStarts]_vars

\* C8 witness: a recovery succeeded and its listener is open
RecoveredAndListening ==
    /\ lastCall.op = "recoveryResponse"
    /\ lastCall.response = "session"
    /\ listenStarts = 1
    /\ OpenSources # {}

\* C9: at most one inbound subscription is open.
AtMostOneSubscription == Cardinality(OpenSources) <= 1

\* C9 witness: startListening has run a second time, from a second successful
\* negotiation, and one subscription is open
ListenerReplaced ==
    /\ listenStarts >= 2
    /\ lastCall.op = "createResponse"
    /\ lastCall.response = "session"
    /\ timers = {}
    /\ Cardinality(OpenSources) = 1

\* C10: after reset no inbound subscription is open until a negotiation that
\* started after the reset has succeeded and started one.
NoSubscriptionAfterReset == ~listenExpected => OpenSources = {}

\* C11: right after reset, whatever the state it was called in: the message
\* list is the single welcome message, status is idle, the AI-paused flag is
\* false, the session id is cleared in memory and in storage, and the user id
\* in memory and in storage is what it was.
ResetReinitializes ==
    [][(lastCall'.op = "reset")
       => /\ messages' = <<WELCOME_MESSAGE>>
          /\ status' = "idle"
          /\ aiPaused' = FALSE
          /\ sessionIdRef' = NULL
          /\ storedSessionId' = NULL
          /\ userIdRef' = userIdRef
          /\ storedUserId' = storedUserId]_vars

\* the events of a response: a function call, then partial texts, then one
\* final text that is not the pause marker
CallPartialsFinal(events) ==
    /\ Len(events) >= 3
    /\ events[1].type = EventType.FUNCTION_CALL
    /\ \A i \in 2..(Len(events) - 1) : events[i].type = EventType.TEXT_PARTIAL
    /\ Last(events).type = EventType.TEXT
    /\ Last(events).text # AI_PAUSED

\* the events that a step added to the turn p's allEvents
NewEvents(p) == SubSeq(allEvents'[p], Len(allEvents[p]) + 1, Len(allEvents'[p]))

\* C12: a turn whose response is a function call, partial texts and one final
\* text (not blank, not the pause marker) appends exactly one agent message,
\* whose text is the final event's text and not a concatenation of the chunks;
\* and while it is read, the live events gain one entry per function-call (or
\* function-response) event, so exactly one for this response.
StreamReducesToFinalText ==
    [][/\ (lastCall'.op = "streamEnd" /\ CallPartialsFinal(allEvents[lastCall'.proc]))
          => /\ Len(messages') = Len(messages) + 1
             /\ SubSeq(messages', 1, Len(messages)) = messages
             /\ Last(messages').role = "agent"
             /\ Last(messages').text = Last(allEvents[lastCall'.proc]).text
             /\ Last(messages').toolCalls = <<allEvents[lastCall'.proc][1]>>
       /\ (lastCall'.op = "read")
          => /\ liveEvents' = liveEvents \o SelectSeq(NewEvents(lastCall'.proc), IsLiveEvent)
             /\ CallPartialsFinal(allEvents'[lastCall'.proc])
                /\ allEvents[lastCall'.proc] = << >> /\ liveEvents = << >>
                => liveEvents' = <<allEvents'[lastCall'.proc][1]>>]_vars

\* C12 witness: a response of a function call, three partial texts and a final
\* text has been finalized into the agent message "ok"
ReducedToFinalText ==
    /\ lastCall.op = "streamEnd"
    /\ Last(messages).role = "agent"
    /\ Last(messages).text = <<"ok">>
    /\ Len(Last(messages).events) = 5
    /\ CallPartialsFinal(Last(messages).events)
    /\ Len(Last(messages).toolCalls) = 1

\* the texts of the text events (final or partial) among events
TextsOf(events) == SelectSeq(events, IsTextEvent)

\* C13: a turn whose response has no text event, or whose last text event is
\* the pause marker __AI_PAUSED__, appends no message when its stream ends and
\* sets the AI-paused flag.
PauseMarkerAddsNoMessage ==
    [][(/\ lastCall'.op = "streamEnd"
        /\ \/ TextsOf(allEvents[lastCall'.proc]) = << >>
           \/ Last(TextsOf(allEvents[lastCall'.proc])).text = AI_PAUSED)
       => /\ messages' = messages
          /\ aiPaused' = TRUE]_vars

\* C13 witness: a turn sent while the AI was active ended on the pause marker
PausedByMarker ==
    /\ lastCall.op = "streamEnd"
    /\ lastCall.text = AI_PAUSED
    /\ ~aiPausedClosure[lastCall.proc]
    /\ aiPaused
    /\ Last(messages).role = "user"

\* the step ends the turn p: its finally block has run
TurnCompleted(p) == p \in Turns /\ pc[p] \notin {"none", "done"} /\ pc'[p] = "done"

\* C14: when a turn completes (its stream ended, with or without the pause
\* marker, or it failed), the live events and the streaming text are empty and
\* status is human_mode if the AI-paused flag is then true, idle otherwise.
CompletionStatusMatchesFlag ==
    [][(/\ lastCall'.op \in {"streamEnd", "streamError", "runResponse", "createResponse"}
        /\ TurnCompleted(lastCall'.proc))
       => /\ liveEvents' = << >>
          /\ streamingText' = << >>
          /\ status' = IF aiPaused' THEN "human_mode" ELSE "idle"]_vars

\* the step handles an inbound ai_status_changed event with ai_paused = b
StatusChanged(b) ==
    /\ lastCall'.op = "inbound"
    /\ lastCall'.data.kind = "json"
    /\ lastCall'.data.type = "ai_status_changed"
    /\ lastCall'.data.ai_paused = b

\* C15: human mode is sticky.  While the AI-paused flag is true every accepted
\* sendMessage sets status to human_mode, and the flag stays true until an
\* inbound ai_status_changed event with ai_paused false (or reset) clears it;
\* such an event clears it, and with the flag cleared a sendMessage that
\* passes the guard starts a turn with status loading.
HumanModeSticky ==
    [][/\ (lastCall'.op = "sendMessage" /\ TurnStarted(lastCall'.proc) /\ aiPaused)
          => status' = "human_mode"
       /\ (aiPaused /\ ~aiPaused')
          => StatusChanged(FALSE) \/ lastCall'.op = "reset"
       /\ StatusChanged(FALSE) => ~aiPaused'
       /\ (/\ lastCall'.op = "sendMessage"
           /\ Trim(lastCall'.text) # << >>
           /\ status \in {"idle", "human_mode"}
           /\ ~aiPaused)
          => TurnStarted(lastCall'.proc) /\ status' = "loading"]_vars

\* C15 witness: in one session, a turn was sent while the AI was paused, the
\* flag was then cleared (only an inbound event does that without a reset),
\* and the next sendMessage was accepted from human_mode with status loading
SentAfterResume ==
    /\ lastCall.op = "sendMessage"
    /\ lastCall.proc = 2
    /\ aiPausedClosure[1] /\ ~aiPausedClosure[2]
    /\ sessionIdLocal[1] # NULL /\ sessionIdLocal[2] = sessionIdLocal[1]
    /\ pc[1] = "runPOST"
    /\ status = "loading"

\* App.jsx: the EventFeed (the "thinking" indicator) is rendered when
\* (isLoading || isStreaming) && !isHumanMode
ThinkingShown == status \in {"loading", "streaming"} /\ ~(status = "human_mode" \/ aiPaused)

\* C16: while a turn that was sent with the AI-paused flag true has not
\* completed, the thinking indicator is not shown.
NoThinkingInHumanTurn ==
    \A p \in Turns :
        (pc[p] \notin {"none", "done"} /\ aiPausedClosure[p]) => ~ThinkingShown

\* C17: cancelStream made while a turn's /run_sse request (or the reading of
\* its response) is pending ends that turn without any message: the list is
\* unchanged, no error or agent message, and the completion step runs
\* (buffers emptied, status idle or human_mode).  Before that the turn added
\* only its user message: the response's arrival and the reads add none.
CancelAddsNoMessage ==
    [][/\ (/\ lastCall'.op = "cancelStream"
           /\ abortControllerRef \in Turns
           /\ pc[abortControllerRef] \in {"runPOST", "reading"})
          => /\ TurnCompleted(abortControllerRef)
             /\ messages' = messages
             /\ liveEvents' = << >>
             /\ streamingText' = << >>
             /\ status' \in {"idle", "human_mode"}
       /\ (lastCall'.op = "cancelStream") => messages' = messages
       /\ (\/ lastCall'.op = "read"
           \/ lastCall'.op = "runResponse" /\ lastCall'.response = "ok")
          => messages' = messages]_vars

\* C17 witness: a turn whose request was pending has been cancelled; the list ends
\* with its user message
TurnCancelled ==
    /\ lastCall.op = "cancelStream"
    /\ lastCall.response = "aborted"
    /\ lastCall.proc \in Turns
    /\ pc[lastCall.proc] = "done"
    /\ Last(messages).role = "user"
    /\ status = "idle"

\* the call c is a turn's failure other than an abort: its session creation
\* failed, its POST /run_sse failed (network error or status not ok), or the
\* reading of its response failed
TurnFailure(c) ==
    /\ c.proc \in Turns
    /\ \/ c.op = "createResponse" /\ c.rejected
       \/ c.op = "runResponse" /\ c.response = "failed"
       \/ c.op = "streamError"

\* C18: a turn that fails other than by abort appends exactly one message, the
\* agent-role error message, and completes with status idle or human_mode; a
\* sendMessage (of a non-blank text) made next is accepted.
FailureReportedOnce ==
    [][/\ TurnFailure(lastCall')
          => /\ TurnCompleted(lastCall'.proc)
             /\ messages' = Append(messages, ErrorMessage)
             /\ ErrorMessage.role = "agent"
             /\ status' \in {"idle", "human_mode"}
       /\ (/\ TurnFailure(lastCall)
           /\ lastCall'.op = "sendMessage"
           /\ Trim(lastCall'.text) # << >>)
          => TurnStarted(lastCall'.proc)]_vars

\* C18 witness: the session creation of a turn failed, the error message is
\* the last of the list, and the next turn has been accepted
SentAfterFailedCreation ==
    /\ lastCall.op = "sendMessage"
    /\ lastCall.proc = 2
    /\ pc[1] = "done" /\ pc[2] = "createPOST"
    /\ Len(messages) = 4
    /\ messages[3] = ErrorMessage
    /\ messages[4].role = "user"

Interactive == status \in {"idle", "human_mode"}

\* C19: if every request eventually resolves or rejects and every response
\* stream eventually ends, then from every reachable state status eventually
\* is idle or human_mode (it does not stay loading, streaming or recovering),
\* and recovering always leads to idle.
AlwaysBecomesInteractive ==
    /\ (~Interactive) ~> Interactive
    /\ (status = "recovering") ~> (status = "idle")

\* C19 witness: past the bounded part of the run every pending request has
\* settled: the recovery failed, a turn created the session and read its
\* response to the end, and status is back to idle
SettledToIdle ==
    /\ steps > LiveSteps
    /\ recoveryFetches = 1
    /\ lastCall.op = "streamEnd"
    /\ InFlight(State) = {}
    /\ status = "idle"

IsPrefix(a, b) == Len(a) <= Len(b) /\ SubSeq(b, 1, Len(a)) = a

\* C20: the message list is append-only: every step other than reset keeps
\* the messages of the list, in order, and only adds messages at its end.
MessagesAppendOnly ==
    [][(lastCall'.op # "reset") => IsPrefix(messages, messages')]_vars

\* the step handles an inbound event of the given type
InboundOf(type) ==
    /\ lastCall'.op = "inbound"
    /\ lastCall'.data.kind = "json"
    /\ lastCall'.data.type = type

\* C21: each inbound new_message event appends exactly one message, of role
\* agent, with the event's content, author and timestamp, at the end of the
\* list (so inbound messages are listed in arrival order), whether or not a
\* turn is in flight.
InboundAppendsInOrder ==
    [][InboundOf("new_message")
       => messages' = Append(messages,
            [role |-> "agent", text |-> lastCall'.data.content,
             author |-> lastCall'.data.author,
             timestamp |-> lastCall'.data.timestamp])]_vars

\* C21 witness: while a turn is reading its response, two new_message events
\* arrived; their messages end the list, after the turn's user message
TwoInboundDuringTurn ==
    /\ lastCall.op = "inbound"
    /\ \E p \in Turns : pc[p] = "reading"
    /\ Len(messages) >= 4
    /\ messages[Len(messages) - 2].role = "user"
    /\ "timestamp" \in DOMAIN messages[Len(messages) - 1]
    /\ messages[Len(messages) - 1].author = "human_agent"
    /\ "timestamp" \in DOMAIN Last(messages)
    /\ Last(messages).role = "agent"
    /\ Last(messages).text = <<"hello">>
    /\ Last(messages).timestamp = 1

\* the step is a page load whose localStorage accesses all succeed
LoadedWith(access) == lastCall'.op = "load" /\ lastCall'.data.access = access

\* C22: identity resolution, with localStorage working.  With an email the id
\* is "user_" and a hash that only the email decides (whatever was stored, and
\* the same as at the previous load with that email), and it is stored; with
\* no email and a stored id, that id is returned and storage is unchanged;
\* otherwise a new id is minted and stored, and an email-less load that finds
\* it stored returns it.
IdentityPriority ==
    [][LoadedWith("ok")
       => LET email == lastCall'.data.email
          IN  /\ email # NoEmail
                 => /\ userIdRef'.prefix = "user"
                    /\ storedUserId' = userIdRef'
                    /\ \A stored \in StoredUserIds, random \in RandomDigits :
                         getPersistentUserId(email, stored, random, "ok").returned
                            = userIdRef'
                    /\ (lastCall.op \in {"load", "clearStorage"}
                        /\ lastCall.data.kind = "load"
                        /\ ~lastCall.rejected
                        /\ lastCall.data.email = email)
                       => userIdRef' = userIdRef
                    /\ \A other \in LaunchEmails \ {email, NoEmail} :
                         hashEmail(other) # userIdRef'
              /\ (email = NoEmail /\ storedUserId # NoId)
                 => /\ userIdRef' = storedUserId
                    /\ storedUserId' = storedUserId
              /\ (email = NoEmail /\ storedUserId = NoId)
                 => /\ userIdRef' = [prefix |-> "user", body |-> lastCall'.data.random]
                    /\ storedUserId' = userIdRef'
              /\ (email = NoEmail /\ lastCall.op = "load" /\ ~lastCall.rejected
                  /\ storedUserId = userIdRef)
                 => userIdRef' = userIdRef]_vars

\* C22 witness: a page load with an email found another id stored, returned
\* the email's id as the previous load with that email did, and stored it
EmailIdOverwritesStored ==
    /\ lastCall.op = "load"
    /\ lastCall.data.access = "ok"
    /\ lastCall.data.email # NoEmail
    /\ lastCall.data.stored # NoId
    /\ lastCall.data.stored # userIdRef
    /\ userIdRef = hashEmail(lastCall.data.email)
    /\ storedUserId = userIdRef

\* C27: identity resolution has no error path: when localStorage is not
\* available (its reads or its writes fail) the page load still gets a user
\* id, the one it would get with nothing stored: the email's id, or a newly
\* minted one.
IdentityNeverFails ==
    [][(lastCall'.op = "load")
       => /\ ~lastCall'.rejected
          /\ userIdRef' # NoId
          /\ (lastCall'.data.access = "denied")
             => userIdRef' =
                  getPersistentUserId(lastCall'.data.email, NoId,
                                      lastCall'.data.random, "ok").returned]_vars

\* the subscriptions open for (sid, uid)
OpenFor(srcs, sid, uid) ==
    {e \in 1..Len(srcs) : srcs[e].open /\ srcs[e].sid = sid /\ srcs[e].uid = uid}

\* C23: when an open subscription reports an error it is closed and a
\* reconnection for the same (sessionId, userId) is scheduled; a scheduled
\* reconnection is never dropped: it ends only by firing, and then a
\* subscription for that (sessionId, userId) is open.  Nothing counts or
\* limits the reconnections.
ErrorAlwaysReconnects ==
    [][/\ (lastCall'.op = "sourceError")
          => LET d == lastCall'.data
             IN  /\ OpenFor(sources, d.sid, d.uid) # {}
                 /\ OpenFor(sources', d.sid, d.uid) = {}
                 /\ timers' = timers \cup {[sid |-> d.sid, uid |-> d.uid]}
       /\ (lastCall'.op = "timer")
          => LET d == lastCall'.data
             IN  /\ [sid |-> d.sid, uid |-> d.uid] \in timers
                 /\ listenEventSourceRef' # NULL
                 /\ sources'[listenEventSourceRef'] =
                        [sid |-> d.sid, uid |-> d.uid, open |-> TRUE]
       /\ (timers \ timers' # {}) => lastCall'.op = "timer"]_vars

\* C23 witness: the subscription failed twice and was reopened twice
ReconnectedTwice ==
    /\ lastCall.op = "timer"
    /\ listenStarts = 3
    /\ recoveryFetches = 1 /\ created = 0
    /\ timers = {}
    /\ OpenFor(sources, StoredSid, userIdRef) # {}

\* C24: handling an inbound ai_status_changed event sets the AI-paused flag
\* to the event's ai_paused value; it appends one system message with the
\* event's status text when the text is present, and leaves the list as it
\* was when the text is absent.
StatusEventSetsFlag ==
    [][InboundOf("ai_status_changed")
       => /\ aiPaused' = lastCall'.data.ai_paused
          /\ IF lastCall'.data.message # << >>
             THEN messages' = Append(messages,
                      [role |-> "system", text |-> lastCall'.data.message])
             ELSE messages' = messages]_vars

\* C24 witness: a status event with a text resumed the AI that one without a
\* text had paused
ResumedByStatusEvent ==
    /\ lastCall.op = "inbound"
    /\ lastCall.data.kind = "json"
    /\ lastCall.data.type = "ai_status_changed"
    /\ lastCall.data.message = <<"status">>
    /\ ~lastCall.data.ai_paused
    /\ ~aiPaused
    /\ Len(messages) >= 1
    /\ Last(messages) = [role |-> "system", text |-> <<"status">>]
    /\ \E i \in 1..Len(messages) : messages[i].role = "user"

\* an inbound item that is not JSON, or of a type the handler does not know
IgnoredInbound ==
    /\ lastCall'.op = "inbound"
    /\ \/ lastCall'.data.kind = "malformed"
       \/ /\ lastCall'.data.kind = "json"
          /\ lastCall'.data.type \notin {"new_message", "ai_status_changed"}

\* C25: an inbound item that is not valid JSON, or whose type is neither
\* new_message nor ai_status_changed, leaves the message list, the status,
\* the AI-paused flag and the subscription unchanged.
NoiseIsIgnored ==
    [][IgnoredInbound
       => UNCHANGED <<messages, status, aiPaused, sources,
                      listenEventSourceRef, timers>>]_vars

\* C25 witness: a keepalive arrived while the AI was paused and a turn was
\* in flight
KeepaliveDuringHumanTurn ==
    /\ lastCall.op = "inbound"
    /\ lastCall.data.kind = "json"
    /\ lastCall.data.type = "keepalive"
    /\ aiPaused
    /\ \E p \in Turns : pc[p] \notin {"none", "done"}

\* C30: after every successful session recovery the AI-paused flag is true
\* whenever the recovered session's state marks the AI as paused, whether or
\* not the session carries prior events.
RecoveryAppliesPausedFlag ==
    [][(/\ lastCall'.op = "recoveryResponse"
        /\ lastCall'.data.kind = "session"
        /\ lastCall'.data.ai_paused)
       => aiPaused']_vars

RECURSIVE Entries(_)
\* the entries that function-response events carry, in stream order: those of
\* the products array, then the singular product
Entries(events) ==
    IF events = << >> THEN << >>
    ELSE LET r == Head(events).response
         IN  (IF Head(events).type # "function_response" THEN << >>
              ELSE (IF r.products.kind = "array" THEN r.products.items ELSE << >>)
                   \o r.product)
             \o Entries(Tail(events))

HasNameAndPrice(entry) == entry.name # "" /\ entry.price # 0

\* C26: the agent message appended at finalization carries the final text,
\* as products the entries, in stream order, of every function-response
\* event's products array and singular product that have a name and a price,
\* as tool calls the stream's function-call events, and all the classified
\* events of the turn; a response with products [Sofa A, 499] followed by a
\* text yields that text with that one product.
MessageCarriesProducts ==
    [][(/\ lastCall'.op = "streamEnd"
        /\ TextsOf(allEvents[lastCall'.proc]) # << >>
        /\ ~IsPauseMarker(Last(TextsOf(allEvents[lastCall'.proc])).text))
       => LET events == allEvents[lastCall'.proc]
          IN  /\ messages' = Append(messages,
                    [role |-> "agent",
                     text |-> Last(TextsOf(events)).text,
                     products |-> SelectSeq(Entries(events), HasNameAndPrice),
                     toolCalls |-> SelectSeq(events,
                                     LAMBDA e : e.type = "function_call"),
                     events |-> events])
              /\ (/\ Len(events) = 2
                  /\ events[1].type = "function_response"
                  /\ events[1].response.products =
                        [kind |-> "array", items |-> <<SofaA>>]
                  /\ events[1].response.product = << >>
                  /\ events[2].type = "text")
                 => /\ Last(messages').text = events[2].text
                    /\ Last(messages').products = <<SofaA>>]_vars

\* C26 witness: a response with an array of three entries, one without a price
\* and one without a name, and a product, then a function call and a text, has
\* been finalized
ProductsExtracted ==
    /\ lastCall.op = "streamEnd"
    /\ Last(messages).role = "agent"
    /\ "products" \in DOMAIN Last(messages)
    /\ Last(messages).products = <<SofaA, ChairB>>
    /\ Len(Last(messages).events) = 3
    /\ Len(Last(messages).toolCalls) = 1
    /\ Last(messages).text = <<"ok">>

\* the type claimed for an event: the precedence applied to all its parts
TypeByPrecedence(event) ==
    LET parts == event.parts
        Some(Test(_)) == \E i \in 1..Len(parts) : Test(parts[i])
    IN  IF Some(LAMBDA part : part.functionCall) THEN "function_call"
        ELSE IF Some(LAMBDA part : part.functionResponse) THEN "function_response"
        ELSE IF Some(LAMBDA part : Trim(part.text) # << >>)
        THEN IF event.partial THEN "text_partial" ELSE "text"
        ELSE "thinking"

IsDataLine(line) == line.kind = "data"

\* C28: parseEvent classifies every event by the precedence function call,
\* function response, non-blank text, thinking over all the parts of the
\* event, whatever their order.
ClassifiedByPrecedence ==
    [][(lastCall'.op = "read" /\ lastCall'.data.kind = "lines")
       => LET lines == SelectSeq(lastCall'.data.lines, IsDataLine)
              parsed == NewEvents(lastCall'.proc)
          IN  /\ Len(parsed) = Len(lines)
              /\ \A i \in 1..Len(lines) :
                    parsed[i].type = TypeByPrecedence(lines[i].event)]_vars

\* C29: the candidate final text is the text of the last final text event if
\* the stream has one, and the text of the last partial-text event only when
\* it has none.
FinalTextPrefersFinal ==
    [][(lastCall'.op = "streamEnd")
       => LET events == allEvents[lastCall'.proc]
              finals == SelectSeq(events, LAMBDA e : e.type = "text")
              partials == SelectSeq(events, LAMBDA e : e.type = "text_partial")
          IN  /\ finals # << >> => lastCall'.text = Last(finals).text
              /\ (finals = << >> /\ partials # << >>)
                 => lastCall'.text = Last(partials).text]_vars

\* the text of a server event: its non-blank parts, trimmed, joined by spaces
TextOf(event) == JoinTrimmed(event.parts)

\* an event that is shown: it has parts, and a text that is neither empty nor
\* the pause marker
Shown(event) ==
    event.hasParts /\ TextOf(event) # << >> /\ TextOf(event) # AI_PAUSED

\* C31: the history recovered from a session is the welcome message followed
\* by one message for every event that has parts and a text that is neither
\* blank nor the pause marker, in event order, with role user for the author
\* user, system for the author system and agent for every other author.
HistoryIsFilterMap ==
    [][(lastCall'.op = "recoveryResponse" /\ lastCall'.data.kind = "session")
       => LET shown == SelectSeq(lastCall'.data.events, Shown)
          IN  /\ Len(messages') = 1 + Len(shown)
              /\ messages'[1] = WELCOME_MESSAGE
              /\ \A i \in 1..Len(shown) :
                    /\ messages'[i + 1].text = TextOf(shown[i])
                    /\ messages'[i + 1].author = shown[i].author
                    /\ messages'[i + 1].role =
                          CASE shown[i].author = "user" -> "user"
                            [] shown[i].author = "system" -> "system"
                            [] OTHER -> "agent"]_vars

\* C31 witness: a history of a user's message in three parts and a bot's
\* pause marker was recovered as one message
HistoryRecovered ==
    /\ lastCall.op = "recoveryResponse"
    /\ lastCall.data.kind = "session"
    /\ Len(lastCall.data.events) = 2
    /\ lastCall.data.events[2].parts = <<<<WS>> \o AI_PAUSED>>
    /\ messages = <<WELCOME_MESSAGE,
                    [role |-> "user", text |-> <<"a", WS, "b">>,
                     author |-> "user", timestamp |-> 1]>>

\* the places of the newlines in a text
Newlines(text) == {i \in 1..Len(text) : text[i] = NL}

\* the k-th newline-terminated record of a text, without its newline
RecordAt(text, k) ==
    LET end == CHOOSE i \in Newlines(text) :
                    Cardinality({j \in Newlines(text) : j < i}) = k - 1
        before == {j \in Newlines(text) : j < end}
        start == IF before = {} THEN 1
                 ELSE 1 + CHOOSE j \in before : \A h \in before : h <= j
    IN  SubSeq(text, start, end - 1)

RECURSIVE EventsFrom(_, _)
\* the events of the records k, k+1, ... of a text that are data records
EventsFrom(text, k) ==
    IF k > Cardinality(Newlines(text)) THEN << >>
    ELSE LET line == ParseLine(RecordAt(text, k))
         IN  (IF line.kind = "data" THEN <<parseEvent(line.event)>> ELSE << >>)
             \o EventsFrom(text, k + 1)

\* what the turn p has received of its response
Received(p) == SubSeq(body[p].stream, 1, body[p].sent)

\* C32: the reduction of a response depends only on the newline-terminated
\* records received, not on how the response is cut into chunks: after any
\* reads, the events of the turn are those of the data records whose newline
\* has arrived, once each and in arrival order, a record that does not parse
\* being skipped; what follows the last newline waits in the buffer.
ChunkingIsInvisible ==
    \A p \in Turns :
        pc[p] = "reading"
        => /\ allEvents[p] = EventsFrom(Received(p), 1)
           /\ \E lines \in {Split(Received(p))} : buffer[p] = Last(lines)

\* C32 witness: a record that arrived in three chunks, the last one being the
\* end of its JSON text and the newline, has been processed
RecordReadInThreeChunks ==
    /\ pc[1] = "reading"
    /\ steps = 7
    /\ lastCall.op = "read"
    /\ lastCall.data.kind = "value"
    /\ lastCall.data.value = <<"}", NL>>
    /\ body[1].stream = Record("F")
    /\ Len(allEvents[1]) = 1
    /\ buffer[1] = << >>

\* a step of a call that was in flight when reset was called and that reset
\* did not abort: a response to it arrives, or it reads its stream
StaleCallResumes ==
    /\ lastCall'.op \in {"recoveryResponse", "createResponse", "runResponse",
                         "read", "streamEnd", "streamError"}
    /\ lastCall'.proc \in staleProcs

\* C33: reset isolates the new conversation from the work started before it:
\* no step of a turn or of a recovery that was in flight at reset time changes
\* the message list or the status, and the stored session id stays cleared
\* until a negotiation started after the reset stores one.
ResetIsolates ==
    [][StaleCallResumes
       => /\ messages' = messages
          /\ status' = status
          /\ storedSessionId' = storedSessionId]_vars

\* C35: a non-blank message submitted through the input box is never lost:
\* whenever a submit clears the input box, the turn has been accepted and the
\* user message, trimmed, has been appended to the message list.
SubmitNeverLosesMessage ==
    [][(lastCall'.op = "handleSubmit" /\ input # << >> /\ input' = << >>)
       => /\ messages' = Append(messages, [role |-> "user", text |-> Trim(input)])
          /\ \E p \in Turns : pc[p] = "none" /\ pc'[p] # "none"]_vars

\* C34: an inbound subscription that is open is subscribed to the page's
\* current session id, which is not null and equals the stored one: never to
\* a session discarded by reset or superseded by a later negotiation, also
\* after a reconnection timer has fired.
SubscribedToCurrentSession ==
    \A e \in OpenSources :
        /\ sessionIdRef # NULL
        /\ sources[e].sid = sessionIdRef
        /\ sessionIdRef = storedSessionId

\* C36: in every reachable state the message list is not empty and its first
\* element is the welcome message.
WelcomeMessageFirst ==
    /\ Len(messages) >= 1
    /\ messages[1] = WELCOME_MESSAGE

\* C36 witness: a recovered history follows the welcome message, and a
\* message was added after it
WelcomeBeforeHistory ==
    /\ isRecovered
    /\ Len(messages) >= 3
    /\ "author" \in DOMAIN messages[2]

\* C37: in the dashboard's agent form every submit attempt ends with the Save
\* button enabled and its label restored, whatever the outcome: when no submit
\* is running the button is enabled and reads "Save Agent".
SaveButtonRestored ==
    agentForm.pc = "idle"
    => ~agentForm.disabled /\ agentForm.label = "Save Agent"
====
